---- MODULE Spec2Model ----
(***************************************************************************)
(* A model of babel-plugin-react-transform (src/src/index.js): the         *)
(* visitor callbacks of one plugin instance, driven by a depth-first       *)
(* traversal of one source file after another.                             *)
(*                                                                         *)
(* Strings are sequences of atoms (short strings standing for runs of      *)
(* characters), so concatenation is \o and two spellings of one name are   *)
(* one value.  Paths are records [abs, segs]: a leading separator and the   *)
(* separated segments.                                                     *)
(***************************************************************************)
EXTENDS Integers, Sequences, FiniteSets, TLC

(***************************************************************************)
(* Bounds of the model.                                                    *)
(***************************************************************************)
\* Nodes (functions, classes, calls, plain statements) visited in one file.
MaxNodes == 2

(***************************************************************************)
(* Strings and the host's generateUidIdentifier.                           *)
(***************************************************************************)
\* The characters [a-zA-Z0-9$_]: what toIdentifier keeps.
IdentAtoms == {"_", "$", "Foo", "Bar", "Unknown", "components", "wrapComponent",
               "reactComponentWrapper", "1", "2", "3", "4", "5", "6", "7", "8", "9", "0"}

DigitAtom(d) ==
    CASE d = 0 -> "0" [] d = 1 -> "1" [] d = 2 -> "2" [] d = 3 -> "3"
      [] d = 4 -> "4" [] d = 5 -> "5" [] d = 6 -> "6" [] d = 7 -> "7"
      [] d = 8 -> "8" [] OTHER -> "9"

\* The decimal spelling of a natural number.
RECURSIVE ToStr(_)
ToStr(n) == IF n < 10 THEN <<DigitAtom(n)>>
            ELSE ToStr(n \div 10) \o <<DigitAtom(n % 10)>>

IsDigit(a) == a \in {"0", "1", "2", "3", "4", "5", "6", "7", "8", "9"}

\* s without its longest prefix of atoms in set: replace(/^[...]+/, "").
RECURSIVE DropLeading(_, _)
DropLeading(s, set) ==
    IF s # <<>> /\ Head(s) \in set THEN DropLeading(Tail(s), set) ELSE s

\* t.toIdentifier: characters outside [a-zA-Z0-9$_] become dashes, leading
\* dashes and digits go, and the remaining dashes are dropped.
ToIdentifier(name) ==
    LET dashed   == [i \in 1..Len(name) |->
                       IF name[i] \in IdentAtoms THEN name[i] ELSE "-"]
        stripped == DropLeading(dashed, {"-"} \cup {a \in IdentAtoms : IsDigit(a)})
        kept     == SelectSeq(stripped, LAMBDA a : a # "-")
    IN  IF kept = <<>> THEN <<"_">>
        ELSE IF IsDigit(Head(kept)) THEN <<"_">> \o kept ELSE kept

\* scope._generateUid(name, i)
UidCandidate(name, i) == <<"_">> \o name \o (IF i > 1 THEN ToStr(i) ELSE <<>>)

RECURSIVE UidFrom(_, _, _)
UidFrom(used, name, i) ==
    IF UidCandidate(name, i) \in used THEN UidFrom(used, name, i + 1)
    ELSE UidCandidate(name, i)

\* scope.generateUid(hint): the first candidate that is no binding or reference
\* of the program; the caller adds it to the program's references.
GenerateUid(used, hint) ==
    UidFrom(used, DropLeading(ToIdentifier(hint), {"_"}), 0)

\* Optional values: undefined, or a value.
Undefined == <<>>
Some(v) == <<v>>

(***************************************************************************)
(* Paths (node's path module and path-parse, POSIX flavour).               *)
(***************************************************************************)
Path(abs, segs) == [abs |-> abs, segs |-> segs]

Front(s) == SubSeq(s, 1, Len(s) - 1)
Last(s) == s[Len(s)]

\* Segments of an absolute path with "." and ".." resolved.
RECURSIVE NormalizeSegs(_, _)
NormalizeSegs(done, rest) ==
    IF rest = <<>> THEN done
    ELSE IF Head(rest) = "." THEN NormalizeSegs(done, Tail(rest))
    ELSE IF Head(rest) = ".."
         THEN NormalizeSegs(IF done = <<>> THEN done ELSE Front(done), Tail(rest))
    ELSE NormalizeSegs(Append(done, Head(rest)), Tail(rest))

\* path.resolve(path.join(base, rel)) for an absolute base.
PathResolve(base, relSegs) == Path(TRUE, NormalizeSegs(<<>>, base.segs \o relSegs))

\* path.dirname of an absolute path.
PathDirname(p) == Path(p.abs, Front(p.segs))

\* path.basename
PathBasename(p) == IF p.segs = <<>> THEN "" ELSE Last(p.segs)

RECURSIVE CommonPrefixLen(_, _)
CommonPrefixLen(a, b) ==
    IF a # <<>> /\ b # <<>> /\ Head(a) = Head(b)
    THEN 1 + CommonPrefixLen(Tail(a), Tail(b)) ELSE 0

\* path.relative(from, to) of two resolved absolute paths: the segments that
\* lead from `from` to `to`.
PathRelative(from, to) ==
    LET k == CommonPrefixLen(from.segs, to.segs)
    IN  [i \in 1..(Len(from.segs) - k) |-> ".."]
        \o SubSeq(to.segs, k + 1, Len(to.segs))

\* The name part of a base name: the base without its extension.
BaseName(base) ==
    CASE base \in {"Foo.js", "Foo.jsx", "Foo"} -> "Foo"
      [] base \in {"Bar.js", "Bar"} -> "Bar"
      [] base \in {"wrap.js", "wrap"} -> "wrap"
      [] OTHER -> base

\* parsePath(p): the directory, the base and the base's name.
ParsePath(p) ==
    [dir  |-> Path(p.abs, IF p.segs = <<>> THEN <<>> ELSE Front(p.segs)),
     base |-> PathBasename(p),
     name |-> BaseName(PathBasename(p))]

\* specifiedPath[0] === '.'
StartsWithDot(p) == ~p.abs /\ p.segs # <<>> /\ Head(p.segs) \in {".", ".."}

\* Where the plugin may be installed (__dirname of the built index.js).
InstallDirs == {Path(TRUE, <<"proj", "node_modules", "babel-plugin-react-transform", "lib">>),
                Path(TRUE, <<"proj", "tools", "babel-plugin-react-transform", "lib">>)}

\* path.resolve(path.join(__dirname, '..', '..'))
ParentDirOf(dirname) == PathResolve(dirname, <<"..", "..">>)

NoError == "none"
RelativePathError == "Relative path is only allowed inside a node_modules folder"
OptionsError == "requires that you specify extras[\"react-transform\"], and that it is an array"
TypeError == "TypeError: Cannot read property 'map' of undefined"

Ok(v) == [error |-> NoError, value |-> v]
Throw(e) == [error |-> e, value |-> Undefined]

resolvePathConservatively(specifiedPath, filePath) ==
    IF StartsWithDot(specifiedPath) THEN Throw(RelativePathError)
    ELSE Ok(specifiedPath)

\* A variant that takes the consuming file for its directory.
resolvePathRelativeToFile(pDir, specifiedPath, filePath) ==
    IF StartsWithDot(specifiedPath)
    THEN Ok(Path(FALSE, <<".">> \o PathRelative(
                filePath,
                PathResolve(pDir, <<"..">> \o specifiedPath.segs))))
    ELSE Ok(specifiedPath)

resolvePathAssumingWeAreInNodeModules(pDir, specifiedPath, filePath) ==
    IF StartsWithDot(specifiedPath)
    THEN Ok(Path(FALSE, <<".">> \o PathRelative(
                PathDirname(filePath),
                PathResolve(pDir, <<"..">> \o specifiedPath.segs))))
    ELSE Ok(specifiedPath)

\* The policy chosen at line 24 for a parent directory.
ChoosePolicy(pDir) ==
    IF PathBasename(pDir) = "node_modules" THEN "AssumingWeAreInNodeModules"
    ELSE "Conservatively"

\* A call of resolvePath under the chosen policy.
ResolvePathWith(policy, pDir, specifiedPath, filePath) ==
    IF policy = "AssumingWeAreInNodeModules"
    THEN resolvePathAssumingWeAreInNodeModules(pDir, specifiedPath, filePath)
    ELSE resolvePathConservatively(specifiedPath, filePath)

(***************************************************************************)
(* Syntax nodes and the component detector.                                *)
(***************************************************************************)
StringLiteral(s) == [type |-> "Literal", kind |-> "string", value |-> s]
BooleanLiteral(s) == [type |-> "Literal", kind |-> "boolean", value |-> s]
NumberLiteral(s) == [type |-> "Literal", kind |-> "number", value |-> s]
Identifier(name) == [type |-> "Identifier", name |-> name]
Property(key, value) == [type |-> "Property", key |-> key, value |-> value]

\* Class members: the kind and the key's name.
Member(kind, name) == [kind |-> kind, key |-> name]

isRenderMethod(member) == member.kind = "method" /\ member.key = "render"

isComponentishClass(cls) == Len(SelectSeq(cls.body, isRenderMethod)) > 0

\* t.buildMatchMemberExpression('React.createClass')
isCreateClassCallExpression(callee) == callee = <<"React", "createClass">>

isCreateClass(node) ==
    IF node.type # "CallExpression" THEN FALSE
    ELSE IF ~isCreateClassCallExpression(node.callee) THEN FALSE
    ELSE IF Len(node.arguments) # 1 THEN FALSE
    ELSE IF node.arguments[1].type # "ObjectExpression" THEN FALSE
    ELSE TRUE

\* t.isLiteral(t.toComputedKey(prop), { value: 'displayName' }): a plain or a
\* quoted key is the literal of its name, a computed identifier key is not.
IsDisplayNameKey(prop) == ~prop.computedIdentifier /\ prop.key = "displayName"

\* prop.value.value: a literal's value, undefined for any other node.  A falsy
\* value ('' or 0) is undefined after line 109's `|| undefined`.
RECURSIVE FirstDisplayName(_)
FirstDisplayName(props) ==
    IF props = <<>> THEN Undefined
    ELSE IF IsDisplayNameKey(Head(props))
         THEN (IF Head(props).value.type = "Literal"
               THEN Some(Head(props).value) ELSE Undefined)
    ELSE FirstDisplayName(Tail(props))

\* The literal (kind and value) inferred as display name, or undefined.
findDisplayName(node) ==
    IF node.id # Undefined THEN Some(StringLiteral(node.id[1]))
    ELSE IF node.type # "CallExpression" THEN Undefined
    ELSE FirstDisplayName(node.arguments[1].properties)

ObjectExpression(props) == [type |-> "ObjectExpression", properties |-> props]
ArrayExpression(elems) == [type |-> "ArrayExpression", elements |-> elems]
CallExpression(callee, args) ==
    [type |-> "CallExpression", callee |-> callee, arguments |-> args]
Decorator(expr) == [type |-> "Decorator", expression |-> expr]
VariableDeclaration(id, init) ==
    [type |-> "VariableDeclaration", kind |-> "var", id |-> id, init |-> init]
ReturnStatement(arg) == [type |-> "ReturnStatement", argument |-> arg]
FunctionExpression(params, body) ==
    [type |-> "FunctionExpression", params |-> params, body |-> body]
FunctionDeclaration(id, params, body) ==
    [type |-> "FunctionDeclaration", id |-> id, params |-> params, body |-> body]

\* A visited node of the input, by its number in visiting order.
NodeRef(nid) == [type |-> "Node", nid |-> nid]

(***************************************************************************)
(* The inputs: the nodes a file may hold and the options of a run.         *)
(***************************************************************************)
ObjectProperty(key, computedIdentifier, value) ==
    [type |-> "Property", key |-> key, computedIdentifier |-> computedIdentifier,
     value |-> value]

ClassNode(id, body) == [type |-> "Class", id |-> id, body |-> body]
CallNode(callee, args) ==
    [type |-> "CallExpression", id |-> Undefined, callee |-> callee, arguments |-> args]
FunctionNode == [type |-> "Function", id |-> Undefined]

ClassNodes ==
    {ClassNode(id, body) :
        id \in {Undefined, Some(<<"Foo">>), Some(<<"Foo", "2">>)},
        body \in {<<>>,
                  <<Member("method", "render")>>,
                  <<Member("get", "render")>>,
                  <<Member("constructor", "constructor"), Member("method", "render")>>}}

ObjectArguments ==
    {ObjectExpression(props) :
        props \in {<<>>,
                   <<ObjectProperty("displayName", FALSE, StringLiteral(<<"Foo">>))>>,
                   <<ObjectProperty("render", FALSE, Identifier("render")),
                     ObjectProperty("displayName", FALSE, StringLiteral(<<"Foo", "2">>))>>,
                   <<ObjectProperty("displayName", FALSE, StringLiteral(<<>>))>>,
                   <<ObjectProperty("displayName", TRUE, StringLiteral(<<"Foo">>))>>,
                   <<ObjectProperty("displayName", FALSE, Identifier("name"))>>,
                   <<ObjectProperty("displayName", FALSE, NumberLiteral(<<"5">>))>>}}

CallNodes ==
    {CallNode(<<"React", "createClass">>, <<obj>>) : obj \in ObjectArguments}
    \cup {CallNode(<<"React", "createClass">>, <<>>),
          CallNode(<<"React", "createClass">>, <<Identifier("spec")>>),
          CallNode(<<"React", "createClass">>,
                   <<ObjectExpression(<<>>), ObjectExpression(<<>>)>>),
          CallNode(<<"createClass">>, <<ObjectExpression(<<>>)>>),
          CallNode(<<"React", "createElement">>, <<ObjectExpression(<<>>)>>)}

\* Identifiers the source program itself may already bind or reference.
SourceBindings == {{}, {<<"_", "$", "Foo">>, <<"_", "wrapComponent">>}}

\* A transform-target record; imports and locals may be left out.
Target(target, imports, locals) ==
    [target |-> target, imports |-> imports, locals |-> locals]

Bare(name) == Path(FALSE, <<name>>)

TargetA == Target(Bare("wrap-lib"), Undefined, Undefined)
TargetB == Target(Bare("react-transform-hmr"), Some(<<Bare("react")>>), Some(<<"module">>))
TargetC == Target(Bare("react-transform-catch-errors"),
                  Some(<<Bare("react"), Bare("redbox-react")>>), Some(<<>>))
\* Imports a file of the project by a relative path.
TargetSelfRel == Target(Bare("self-wrap"), Some(<<Path(FALSE, <<".", "src", "Foo">>)>>), Undefined)
\* Imports a file of the project by its absolute path.
TargetSelfAbs == Target(Bare("abs-wrap"),
                        Some(<<Bare("react"), Path(TRUE, <<"proj", "src", "Foo.js">>)>>), Undefined)
\* Imports a file of the same name in another directory and another file of
\* the same directory.
TargetOtherDir == Target(Path(FALSE, <<".", "lib", "wrap">>),
                         Some(<<Path(FALSE, <<".", "lib", "Foo.js">>),
                                Path(FALSE, <<".", "src", "Bar.js">>)>>), Undefined)

TransformLists ==
    {<<>>, <<TargetA>>, <<TargetA, TargetB, TargetC>>,
     <<TargetA, TargetSelfRel>>, <<TargetSelfRel, TargetA>>,
     <<TargetA, TargetSelfAbs, TargetB>>, <<TargetOtherDir, TargetA>>}

FileNames == {Path(TRUE, <<"proj", "src", "Foo.js">>), Path(TRUE, <<"proj", "src", "Bar.js">>)}

\* extra['react-transform']: an array of target records, or something else.
ArrayValue(items) == [isArray |-> TRUE, items |-> items]
NotAnArray == [isArray |-> FALSE, items |-> <<>>]

\* The file object a callback receives: opts, opts.extra and
\* opts.extra['react-transform'] may each be missing.
FileWith(filename, extra) == [opts |-> Some([filename |-> filename, extra |-> extra])]
FileWithoutOpts == [opts |-> Undefined]

Files ==
    {FileWithoutOpts}
    \cup {FileWith(f, Undefined) : f \in FileNames}
    \cup {FileWith(f, Some([reactTransform |-> Undefined])) : f \in FileNames}
    \cup {FileWith(f, Some([reactTransform |-> Some(NotAnArray)])) : f \in FileNames}
    \cup {FileWith(f, Some([reactTransform |-> Some(ArrayValue(l))])) :
             f \in FileNames, l \in TransformLists}

(***************************************************************************)
(* The plugin's state.                                                     *)
(***************************************************************************)
VARIABLES
    parentDir,    \* line 5, fixed when the plugin is built
    resolvePath,  \* line 24: the policy chosen when the plugin is built
    phase,        \* "Idle", "Traversing" or "Exited": where the file's traversal is
    state,        \* this.state: the keys set so far and their values
    used,         \* the program scope's bindings and references
    open,         \* the nodes entered and not yet left, outermost first
    visited,      \* how many nodes of the file were visited
    body,         \* node.body of the Program: its statements, in order
    sites,        \* the definition sites rewritten so far, in order
    file,         \* the file object Program.exit was given
    flushed,      \* the declaration built by defineComponentRecords, if called
    imports,      \* what file.addImport was asked for, in order
    resolved,     \* the calls of resolvePath made by Program.exit
    error,        \* what Program.exit threw
    output        \* the program Program.exit returned, if it returned one

vars == <<parentDir, resolvePath, phase, state, used, open, visited, body, sites,
          file, flushed, imports, resolved, error, output>>

depthKey == "__reactTransformDepth"
recordsKey == "__reactTransformRecords"
wrapComponentIdKey == "__reactTransformWrapComponentId"

EmptyState == [k \in {} |-> Undefined]
Put(st, k, v) == [x \in (DOMAIN st) \cup {k} |-> IF x = k THEN v ELSE st[x]]
Has(st, k) == k \in DOMAIN st

\* A literal is falsy when it is '' or 0.
Truthy(lit) == lit.value # <<>> /\ ~(lit.kind = "number" /\ lit.value = <<"0">>)

\* state[depthKey] > 0, which is false while the key is unset.
DepthPositive(st) == Has(st, depthKey) /\ st[depthKey] > 0

\* Line 109: findDisplayName(node) || undefined, given what was found.
OrUndefined(found) == IF found # Undefined /\ Truthy(found[1]) THEN found ELSE Undefined

\* A variant that names the record after the display name without asking the
\* scope for an unused identifier.
UniqueIdUnchecked(displayName, usedIds) ==
    UidCandidate(DropLeading(ToIdentifier(
                     <<"$">> \o (IF displayName # Undefined
                                 THEN displayName[1].value ELSE <<"Unknown">>)),
                 {"_"}), 0)

\* Lines 110-112: the identifier minted for a display name.
UniqueIdFor(displayName, usedIds) ==
    GenerateUid(usedIds, <<"$">> \o (IF displayName # Undefined
                                     THEN displayName[1].value ELSE <<"Unknown">>))

\* Lines 114-128: the record's definition.
RecordDefinition(displayName, st) ==
    ObjectExpression(
        (IF displayName # Undefined /\ displayName[1].kind = "string"
         THEN <<Property("displayName", StringLiteral(displayName[1].value))>>
         ELSE <<>>)
        \o (IF DepthPositive(st)
            THEN <<Property("isInFunction", BooleanLiteral(<<"true">>))>>
            ELSE <<>>))

createComponentRecord(node, usedIds, st) ==
    <<UniqueIdFor(OrUndefined(findDisplayName(node)), usedIds),
      RecordDefinition(OrUndefined(findDisplayName(node)), st)>>

\* state[recordsKey] = state[recordsKey] || []; state[recordsKey].push(...)
PushRecord(st, rec) ==
    Put(st, recordsKey,
        Append(IF Has(st, recordsKey) THEN st[recordsKey] ELSE <<>>,
               Property(rec[1], rec[2])))

\* addComponentRecord: the key it returns and the state it leaves.
addComponentRecord(node, usedIds, st) ==
    [uniqueId |-> createComponentRecord(node, usedIds, st)[1],
     state |-> PushRecord(st, createComponentRecord(node, usedIds, st))]

foundComponentRecords(st) == Has(st, recordsKey) /\ Len(st[recordsKey]) > 0

\* A variant that leaves the accumulated records in place.
RecordsDeclarationKeepingRecords(id, st) ==
    [id |-> id,
     declaration |-> VariableDeclaration(id, ObjectExpression(st[recordsKey])),
     state |-> st]

\* defineComponentRecords: the identifier and the declaration it returns, and
\* the state it leaves.
RecordsDeclaration(id, st) ==
    [id |-> id,
     declaration |-> VariableDeclaration(id, ObjectExpression(st[recordsKey])),
     state |-> Put(st, recordsKey, <<>>)]

defineComponentRecords(usedIds, st) ==
    RecordsDeclaration(GenerateUid(usedIds, <<"components">>), st)

\* Lines 93-101, for a file that has opts.extra.
CheckedOptions(pluginOptions) ==
    IF pluginOptions = Undefined \/ ~pluginOptions[1].isArray
    THEN Throw(OptionsError)
    ELSE Ok(Some(pluginOptions[1].items))

getPluginOptions(f) ==
    IF f.opts = Undefined \/ f.opts[1].extra = Undefined THEN Ok(Undefined)
    ELSE CheckedOptions(f.opts[1].extra[1].reactTransform)

(***************************************************************************)
(* The code synthesizer.                                                   *)
(***************************************************************************)
\* A call of resolvePath as Program.exit makes it.
ResolvePath(specifiedPath, filePath) ==
    ResolvePathWith(resolvePath, parentDir, specifiedPath, filePath)

ResolveCall(specifiedPath, filePath) ==
    [specifiedPath |-> specifiedPath, filePath |-> filePath,
     result |-> ResolvePath(specifiedPath, filePath)]

\* Lines 175-178, for an import whose path resolved.
isSameAsFileBeingProcessed(resolvedPath, filename) ==
    /\ ParsePath(resolvedPath).dir = Path(FALSE, <<".">>)
    /\ ParsePath(resolvedPath).name = ParsePath(filename).name

\* imports.some(isSameAsFileBeingProcessed): stops at the first import that is
\* the same, and at the first whose path cannot be resolved.
RECURSIVE SomeSame(_, _)
SomeSameFrom(call, rest, filename) ==
    IF call.result.error # NoError
    THEN [error |-> call.result.error, value |-> FALSE, calls |-> {call}]
    ELSE IF isSameAsFileBeingProcessed(call.result.value, filename)
    THEN [error |-> NoError, value |-> TRUE, calls |-> {call}]
    ELSE [SomeSame(rest, filename) EXCEPT !.calls = @ \cup {call}]

SomeSame(importPaths, filename) ==
    IF importPaths = <<>> THEN [error |-> NoError, value |-> FALSE, calls |-> {}]
    ELSE SomeSameFrom(ResolveCall(Head(importPaths), filename),
                      Tail(importPaths), filename)

\* The reference file.addImport returns for an alias.
ImportRef(alias) == [type |-> "Identifier", importOf |-> alias]

\* file.addImport(source, name): one import per alias (name || source).
addImport(log, source, alias) ==
    IF \E i \in 1..Len(log) : log[i].alias = alias THEN log
    ELSE Append(log, [alias |-> alias, source |-> source])

RECURSIVE AddImports(_, _, _)
AddImports(log, importPaths, filename) ==
    IF importPaths = <<>> THEN log
    ELSE AddImports(addImport(log, ResolvePath(Head(importPaths), filename).value,
                              Head(importPaths)),
                    Tail(importPaths), filename)

\* const { target, imports = [], locals = [] } = targetOptions
OrEmpty(list) == IF list = Undefined THEN <<>> ELSE list[1]

\* Lines 184-199: the declaration of one init call.
InitCallDeclaration(id, importRef, filename, recordsId, locals, importPaths) ==
    VariableDeclaration(id,
        CallExpression(importRef, <<
            ObjectExpression(<<
                Property("filename", filename),
                Property("components", recordsId),
                Property("locals", ArrayExpression(
                    [i \in 1..Len(locals) |-> Identifier(locals[i])])),
                Property("imports", ArrayExpression(
                    [i \in 1..Len(importPaths) |-> ImportRef(importPaths[i])]))
            >>)
        >>))

\* Lines 184-199, given the init call's identifier and the target's path.
InitCallFor(ctx, filename, recordsId, targetOptions, id, targetCall) ==
    IF targetCall.result.error # NoError
    THEN [ctx |-> [ctx EXCEPT !.resolved = @ \cup {targetCall},
                              !.error = targetCall.result.error],
          result |-> Undefined]
    ELSE [ctx |-> [ctx EXCEPT
                     !.resolved = @ \cup {targetCall},
                     !.imports = AddImports(
                         addImport(@, targetCall.result.value, targetCall.result.value),
                         OrEmpty(targetOptions.imports), filename)],
          result |-> Some(<<id,
                            InitCallDeclaration(id, ImportRef(targetCall.result.value),
                                filename, recordsId, OrEmpty(targetOptions.locals),
                                OrEmpty(targetOptions.imports))>>)]

\* Lines 180-199, given the identifier minted at line 171 and what
\* imports.some(...) found.
InitCallAfterGuard(ctx, filename, recordsId, targetOptions, id, same) ==
    IF same.error # NoError
    THEN [ctx |-> [ctx EXCEPT !.used = @ \cup {id}, !.resolved = @ \cup same.calls,
                              !.error = same.error],
          result |-> Undefined]
    ELSE IF same.value
    THEN [ctx |-> [ctx EXCEPT !.used = @ \cup {id}, !.resolved = @ \cup same.calls],
          result |-> Undefined]
    ELSE InitCallFor([ctx EXCEPT !.used = @ \cup {id}, !.resolved = @ \cup same.calls],
                     filename, recordsId, targetOptions, id,
                     ResolveCall(targetOptions.target, filename))

\* What one call of defineInitTransformCall leaves and returns: ctx holds the
\* scope's identifiers, the imports asked for, the resolvePath calls made and
\* the error thrown, if any.
defineInitTransformCall(ctx, filename, recordsId, targetOptions) ==
    InitCallAfterGuard(ctx, filename, recordsId, targetOptions,
                       GenerateUid(ctx.used, <<"reactComponentWrapper">>),
                       SomeSame(OrEmpty(targetOptions.imports), filename))

\* Lines 282-284: every target record in order, the skipped ones filtered out;
\* an error ends the run.
RECURSIVE InitTransformCalls(_, _, _, _, _)
InitTransformCallsAfter(one, filename, recordsId, rest, calls) ==
    InitTransformCalls(one.ctx, filename, recordsId, rest,
                       IF one.result = Undefined THEN calls
                       ELSE Append(calls, one.result[1]))

InitTransformCalls(ctx, filename, recordsId, targets, calls) ==
    IF targets = <<>> \/ ctx.error # NoError THEN [ctx |-> ctx, calls |-> calls]
    ELSE InitTransformCallsAfter(
             defineInitTransformCall(ctx, filename, recordsId, Head(targets)),
             filename, recordsId, Tail(targets), calls)

\* A variant that folds from the right: reduceRight in place of reduce.
RECURSIVE ReduceTransformsRight(_, _)
ReduceTransformsRight(initTransformIds, composed) ==
    IF initTransformIds = <<>> THEN composed
    ELSE ReduceTransformsRight(Front(initTransformIds),
                               CallExpression(Last(initTransformIds),
                                              <<composed, Identifier("uniqueId")>>))

\* initTransformIds.reduce(..., t.identifier('ReactClass'))
RECURSIVE ReduceTransforms(_, _)
ReduceTransforms(initTransformIds, composed) ==
    IF initTransformIds = <<>> THEN composed
    ELSE ReduceTransforms(Tail(initTransformIds),
                          CallExpression(Head(initTransformIds),
                                         <<composed, Identifier("uniqueId")>>))

defineWrapComponent(wrapComponentId, initTransformIds) ==
    FunctionDeclaration(wrapComponentId, <<Identifier("uniqueId")>>,
        ReturnStatement(
            FunctionExpression(<<Identifier("ReactClass")>>,
                ReturnStatement(
                    ReduceTransforms(initTransformIds, Identifier("ReactClass"))))))

(***************************************************************************)
(* The traversal: the host visits the nodes of a file depth-first and      *)
(* calls the visitor's callbacks.                                          *)
(***************************************************************************)
IsFunctionEntry(e) == e.node.type = "Function"

\* How many of the open nodes are functions.
EnclosingFunctions(stack) == Len(SelectSeq(stack, IsFunctionEntry))

\* The Program's statements once a node is entered: a node entered while no
\* other is open starts the next statement.
BodyWith(nid) == IF open = <<>> THEN Append(body, NodeRef(nid)) ELSE body

CanEnter == phase = "Traversing" /\ visited < MaxNodes

Init ==
    /\ \E dirname \in InstallDirs :
         /\ parentDir = ParentDirOf(dirname)
         /\ resolvePath = ChoosePolicy(ParentDirOf(dirname))
    /\ phase = "Idle"
    /\ state = EmptyState
    /\ used = {}
    /\ open = <<>>
    /\ visited = 0
    /\ body = <<>>
    /\ sites = <<>>
    /\ file = Undefined
    /\ flushed = Undefined
    /\ imports = <<>>
    /\ resolved = {}
    /\ error = NoError
    /\ output = Undefined

\* Program.enter, for a program whose scope holds the given identifiers.
ProgramEnter(bindings) ==
    /\ phase = "Idle"
    /\ LET id == GenerateUid(bindings, <<"wrapComponent">>)
       IN  /\ state' = Put(state, wrapComponentIdKey, id)
           /\ used' = bindings \cup {id}
    /\ phase' = "Traversing"
    /\ UNCHANGED <<parentDir, resolvePath, open, visited, body, sites, file,
                   flushed, imports, resolved, error, output>>

\* Function.enter
FunctionEnter ==
    /\ CanEnter
    /\ LET depth == IF ~Has(state, depthKey) \/ state[depthKey] = 0
                    THEN 0 ELSE state[depthKey]
       IN  state' = Put(state, depthKey, depth + 1)
    /\ open' = Append(open, [nid |-> visited + 1, node |-> FunctionNode])
    /\ visited' = visited + 1
    /\ body' = BodyWith(visited + 1)
    /\ UNCHANGED <<parentDir, resolvePath, phase, used, sites, file, flushed,
                   imports, resolved, error, output>>

\* A variant of Function.exit that leaves the counter as it is.
FunctionExitKeepingDepth ==
    /\ phase = "Traversing"
    /\ open # <<>>
    /\ Last(open).node.type = "Function"
    /\ open' = Front(open)
    /\ UNCHANGED <<parentDir, resolvePath, phase, state, used, visited, body,
                   sites, file, flushed, imports, resolved, error, output>>

\* Function.exit
FunctionExit ==
    /\ phase = "Traversing"
    /\ open # <<>>
    /\ Last(open).node.type = "Function"
    /\ state' = Put(state, depthKey, state[depthKey] - 1)
    /\ open' = Front(open)
    /\ UNCHANGED <<parentDir, resolvePath, phase, used, visited, body, sites,
                   file, flushed, imports, resolved, error, output>>

\* A variant that calls the wrapper by the name it usually gets.
WrapCallByName(st, uniqueId) ==
    CallExpression(<<"_", "wrapComponent">>, <<StringLiteral(uniqueId)>>)

\* The call every rewritten site makes: wrapper(uniqueId).
WrapCall(st, uniqueId) ==
    CallExpression(st[wrapComponentIdKey], <<StringLiteral(uniqueId)>>)

\* What the Class callback adds to node.decorators.
ClassRewrite(st, uniqueId) == Decorator(WrapCall(st, uniqueId))

\* What CallExpression.exit returns in place of the node.
CallRewrite(st, uniqueId, nid) ==
    CallExpression(WrapCall(st, uniqueId), <<NodeRef(nid)>>)

\* The Class callback, called when a class is entered.
Class(node) ==
    /\ CanEnter
    /\ IF ~isComponentishClass(node)
       THEN UNCHANGED <<state, used, sites>>
       ELSE \E added \in {addComponentRecord(node, used, state)} :
                /\ state' = added.state
                /\ used' = used \cup {added.uniqueId}
                /\ sites' = Append(sites,
                      [nid |-> visited + 1,
                       enclosing |-> EnclosingFunctions(open),
                       rewrite |-> ClassRewrite(state, added.uniqueId)])
    /\ open' = Append(open, [nid |-> visited + 1, node |-> node])
    /\ visited' = visited + 1
    /\ body' = BodyWith(visited + 1)
    /\ UNCHANGED <<parentDir, resolvePath, phase, file, flushed, imports,
                   resolved, error, output>>

\* Leaving a class: the visitor has no callback for it.
ClassLeave ==
    /\ phase = "Traversing"
    /\ open # <<>>
    /\ Last(open).node.type = "Class"
    /\ open' = Front(open)
    /\ UNCHANGED <<parentDir, resolvePath, phase, state, used, visited, body,
                   sites, file, flushed, imports, resolved, error, output>>

\* Entering a call: the visitor has no callback for it.
CallEnter(node) ==
    /\ CanEnter
    /\ open' = Append(open, [nid |-> visited + 1, node |-> node])
    /\ visited' = visited + 1
    /\ body' = BodyWith(visited + 1)
    /\ UNCHANGED <<parentDir, resolvePath, phase, state, used, sites, file,
                   flushed, imports, resolved, error, output>>

\* CallExpression.exit
CallExpressionExit ==
    /\ phase = "Traversing"
    /\ open # <<>>
    /\ Last(open).node.type = "CallExpression"
    /\ IF ~isCreateClass(Last(open).node)
       THEN UNCHANGED <<state, used, sites>>
       ELSE \E added \in {addComponentRecord(Last(open).node, used, state)} :
                /\ state' = added.state
                /\ used' = used \cup {added.uniqueId}
                /\ sites' = Append(sites,
                      [nid |-> Last(open).nid,
                       enclosing |-> EnclosingFunctions(Front(open)),
                       rewrite |-> CallRewrite(state, added.uniqueId, Last(open).nid)])
    /\ open' = Front(open)
    /\ UNCHANGED <<parentDir, resolvePath, phase, visited, body, file, flushed,
                   imports, resolved, error, output>>

\* A statement of the program that holds no function, class or call.
PlainStatement ==
    /\ CanEnter
    /\ open = <<>>
    /\ body' = Append(body, NodeRef(visited + 1))
    /\ visited' = visited + 1
    /\ UNCHANGED <<parentDir, resolvePath, phase, state, used, open, sites,
                   file, flushed, imports, resolved, error, output>>

\* What Program.exit leaves when it returns early or throws before it
\* changed anything.
ExitUnchanged(e) ==
    [state |-> state, used |-> used, flushed |-> flushed, imports |-> imports,
     resolved |-> resolved, error |-> e, output |-> output]

\* A variant that puts the wrap-component declaration before the init calls.
ExitAfterCallsWrapperFirst(rec, run) ==
    [state |-> rec.state, used |-> run.ctx.used, flushed |-> Some(rec.declaration),
     imports |-> run.ctx.imports, resolved |-> run.ctx.resolved,
     error |-> run.ctx.error,
     output |-> IF run.ctx.error # NoError THEN output
                ELSE Some(<<rec.declaration>>
                          \o <<defineWrapComponent(state[wrapComponentIdKey],
                                   [i \in 1..Len(run.calls) |-> run.calls[i][1]])>>
                          \o [i \in 1..Len(run.calls) |-> run.calls[i][2]]
                          \o body)]

\* Lines 285-297, given the records declaration and the init calls.
ExitAfterCalls(rec, run) ==
    [state |-> rec.state, used |-> run.ctx.used, flushed |-> Some(rec.declaration),
     imports |-> run.ctx.imports, resolved |-> run.ctx.resolved,
     error |-> run.ctx.error,
     output |-> IF run.ctx.error # NoError THEN output
                ELSE Some(<<rec.declaration>>
                          \o [i \in 1..Len(run.calls) |-> run.calls[i][2]]
                          \o <<defineWrapComponent(state[wrapComponentIdKey],
                                   [i \in 1..Len(run.calls) |-> run.calls[i][1]])>>
                          \o body)]

\* Lines 282-297, given the options and the records declaration: mapping over
\* options that are undefined throws.
ExitAfterFlush(f, allTransformOptions, rec) ==
    IF allTransformOptions = Undefined
    THEN [state |-> rec.state, used |-> used \cup {rec.id},
          flushed |-> Some(rec.declaration), imports |-> imports,
          resolved |-> resolved, error |-> TypeError, output |-> output]
    ELSE ExitAfterCalls(rec,
             InitTransformCalls([used |-> used \cup {rec.id}, imports |-> imports,
                                 resolved |-> resolved, error |-> NoError],
                                f.opts[1].filename, rec.id,
                                allTransformOptions[1], <<>>))

\* Lines 278-297, given what getPluginOptions returned or threw.
ExitWithOptions(f, options) ==
    IF options.error # NoError THEN ExitUnchanged(options.error)
    ELSE ExitAfterFlush(f, options.value, defineComponentRecords(used, state))

\* A variant that reads the options before it looks for records.
ProgramExitResultOptionsFirst(f) ==
    IF getPluginOptions(f).error # NoError THEN ExitUnchanged(getPluginOptions(f).error)
    ELSE IF ~foundComponentRecords(state) THEN ExitUnchanged(error)
    ELSE ExitWithOptions(f, getPluginOptions(f))

\* What Program.exit leaves, given the file object f.
ProgramExitResult(f) ==
    IF ~foundComponentRecords(state) THEN ExitUnchanged(error)
    ELSE ExitWithOptions(f, getPluginOptions(f))

\* Program.exit, given the file object f.
ProgramExit(f) ==
    /\ phase = "Traversing"
    /\ open = <<>>
    /\ phase' = "Exited"
    /\ file' = f
    /\ \E r \in {ProgramExitResult(f)} :
         /\ state' = r.state
         /\ used' = r.used
         /\ flushed' = r.flushed
         /\ imports' = r.imports
         /\ resolved' = r.resolved
         /\ error' = r.error
         /\ output' = r.output
    /\ UNCHANGED <<parentDir, resolvePath, open, visited, body, sites>>

\* The host starts on the next file: a new file object, state and scope.
NextFile ==
    /\ phase = "Exited"
    /\ phase' = "Idle"
    /\ state' = EmptyState
    /\ used' = {}
    /\ open' = <<>>
    /\ visited' = 0
    /\ body' = <<>>
    /\ sites' = <<>>
    /\ file' = Undefined
    /\ flushed' = Undefined
    /\ imports' = <<>>
    /\ resolved' = {}
    /\ error' = NoError
    /\ output' = Undefined
    /\ UNCHANGED <<parentDir, resolvePath>>

Next ==
    \/ \E bindings \in SourceBindings : ProgramEnter(bindings)
    \/ FunctionEnter
    \/ FunctionExit
    \/ \E node \in ClassNodes : Class(node)
    \/ ClassLeave
    \/ \E node \in CallNodes : CallEnter(node)
    \/ CallExpressionExit
    \/ PlainStatement
    \/ \E f \in Files : ProgramExit(f)
    \/ NextFile

Spec == Init /\ [][Next]_vars
(***************************************************************************)
(* What the properties below read from a state.                            *)
(***************************************************************************)
\* The records accumulated and not yet flushed.
Records(st) == IF Has(st, recordsKey) THEN st[recordsKey] ELSE <<>>

\* The records of the file: the accumulated ones, or the flushed ones.
AllRecords == IF flushed # Undefined THEN flushed[1].init.properties ELSE Records(state)

\* The wrapper(uniqueId) call a rewritten site holds.
WrapCallOf(site) ==
    IF site.rewrite.type = "Decorator" THEN site.rewrite.expression
    ELSE site.rewrite.callee

\* The key a rewritten site passes.
SiteKey(site) == WrapCallOf(site).arguments[1].value

HasIsInFunction(record) ==
    \E i \in 1..Len(record.value.properties) :
        record.value.properties[i].key = "isInFunction"

\* The functionDepth counter as the code reads it: unset counts as 0.
DepthValue == IF Has(state, depthKey) THEN state[depthKey] ELSE 0

HasList(f) ==
    /\ f.opts # Undefined
    /\ f.opts[1].extra # Undefined
    /\ f.opts[1].extra[1].reactTransform # Undefined
    /\ f.opts[1].extra[1].reactTransform[1].isArray

ListOf(f) == f.opts[1].extra[1].reactTransform[1].items

IsInitCall(decl) ==
    decl.type = "VariableDeclaration" /\ decl.init.type = "CallExpression"

IsWrapperDeclaration(decl) ==
    decl.type = "FunctionDeclaration" /\ decl.id = state[wrapComponentIdKey]

\* The init-call declarations of a program, in order.
InitCallsOf(program) == SelectSeq(program, IsInitCall)

\* The wrap-component declarations of a program.
WrappersOf(program) == SelectSeq(program, IsWrapperDeclaration)

\* What the inner function of a wrap-component declaration returns.
InnerReturn(wrapper) == wrapper.body.argument.body.argument

\* T_n(... T_2(T_1(ReactClass, uniqueId), uniqueId) ..., uniqueId)
RECURSIVE Threaded(_)
Threaded(ids) ==
    IF ids = <<>> THEN Identifier("ReactClass")
    ELSE CallExpression(Last(ids), <<Threaded(Front(ids)), Identifier("uniqueId")>>)

\* C1: in a rebuilt program the wrap-component function takes uniqueId and
\* returns a function of ReactClass whose result threads ReactClass through the
\* identifiers of the program's init calls in their order, the first innermost,
\* each call given uniqueId as second argument; with no init call it returns
\* ReactClass itself.
C1_WrapperComposition ==
    (phase = "Exited" /\ output # Undefined) =>
        /\ Len(WrappersOf(output[1])) = 1
        /\ WrappersOf(output[1])[1].params = <<Identifier("uniqueId")>>
        /\ WrappersOf(output[1])[1].body.argument.params = <<Identifier("ReactClass")>>
        /\ InnerReturn(WrappersOf(output[1])[1]) =
             Threaded([i \in 1..Len(InitCallsOf(output[1])) |->
                          InitCallsOf(output[1])[i].id])

C1_Witness ==
    /\ phase = "Exited"
    /\ output # Undefined
    /\ Len(InitCallsOf(output[1])) = 3
    /\ InnerReturn(WrappersOf(output[1])[1]).callee = InitCallsOf(output[1])[3].id

\* Two paths name one module: the same directory and the same base name, the
\* extension aside.
SameModule(p, q) ==
    /\ PathDirname(p) = PathDirname(q)
    /\ BaseName(PathBasename(p)) = BaseName(PathBasename(q))

\* An import specifier names the file being transformed: an absolute path that
\* is the file's, or a relative one that the policy in force resolves to it.
RefersToFile(imp, filename) ==
    IF imp.abs THEN SameModule(Path(TRUE, NormalizeSegs(<<>>, imp.segs)), filename)
    ELSE IF StartsWithDot(imp) /\ resolvePath = "AssumingWeAreInNodeModules"
    THEN SameModule(PathResolve(parentDir, <<"..">> \o imp.segs), filename)
    ELSE FALSE

SelfImporting(target, filename) ==
    \E i \in 1..Len(OrEmpty(target.imports)) :
        RefersToFile(OrEmpty(target.imports)[i], filename)

\* The file object with the self-importing target records taken out of its list.
WithoutSelfImporting(f) ==
    FileWith(f.opts[1].filename,
             Some([reactTransform |-> Some(ArrayValue(
                 SelectSeq(ListOf(f),
                           LAMBDA t : ~SelfImporting(t, f.opts[1].filename))))]))

\* The modules the init calls of a returned program call, in order.
InitCallees(out) ==
    IF out = Undefined THEN <<>>
    ELSE [i \in 1..Len(InitCallsOf(out[1])) |-> InitCallsOf(out[1])[i].init.callee]

\* C2: when Program.exit runs on a file with components and a list of target
\* records some of which import the file being transformed, it succeeds and
\* its init calls and imports are those it would produce for the list without
\* those records (the names of fresh identifiers aside).
C2_SelfImportGuard ==
    [][(/\ phase = "Traversing"
        /\ phase' = "Exited"
        /\ foundComponentRecords(state)
        /\ HasList(file')
        /\ \E k \in 1..Len(ListOf(file')) :
              SelfImporting(ListOf(file')[k], file'.opts[1].filename))
       => /\ error' = NoError
          /\ output' # Undefined
          /\ InitCallees(output') =
               InitCallees(ProgramExitResult(WithoutSelfImporting(file')).output)
          /\ imports' = ProgramExitResult(WithoutSelfImporting(file')).imports]_vars

\* C3: a file in which no component was detected leaves Program.exit as it
\* entered it: no program is returned in place of the input, nothing is
\* flushed, imported or resolved, no identifier is minted beyond the wrapper's,
\* and no error is raised whatever the configuration.
C3_NoComponentsNoChange ==
    (phase = "Exited" /\ sites = <<>>) =>
        /\ output = Undefined
        /\ error = NoError
        /\ flushed = Undefined
        /\ imports = <<>>
        /\ resolved = {}
        /\ Records(state) = <<>>
        /\ state[wrapComponentIdKey] \in used
        /\ \A id \in used \ {state[wrapComponentIdKey]} : id \in UNION SourceBindings

C3_Witness ==
    /\ phase = "Exited"
    /\ sites = <<>>
    /\ Len(body) = 2
    /\ ~HasList(file)
    /\ output = Undefined
    /\ error = NoError

\* The target records of a list that the guard did not skip, in order.
KeptTargets(f) ==
    SelectSeq(ListOf(f),
              LAMBDA t : ~SomeSame(OrEmpty(t.imports), f.opts[1].filename).value)

\* C4: a rebuilt program is the records declaration, then one init call per
\* target record that was not skipped, in the configuration's order, then the
\* one wrap-component declaration, then the program's statements in their
\* order.
C4_RebuiltProgramOrder ==
    (phase = "Exited" /\ output # Undefined) =>
        /\ sites # <<>>
        /\ Len(output[1]) = 1 + Len(KeptTargets(file)) + 1 + Len(body)
        /\ output[1][1] = flushed[1]
        /\ output[1][1].type = "VariableDeclaration"
        /\ output[1][1].init.type = "ObjectExpression"
        /\ \A i \in 1..Len(KeptTargets(file)) :
              /\ IsInitCall(output[1][1 + i])
              /\ output[1][1 + i].init.callee =
                   ImportRef(ResolvePath(KeptTargets(file)[i].target,
                                         file.opts[1].filename).value)
        /\ IsWrapperDeclaration(output[1][Len(KeptTargets(file)) + 2])
        /\ SubSeq(output[1], Len(KeptTargets(file)) + 3, Len(output[1])) = body
        /\ \A i \in 1..Len(body) : body[i] = NodeRef(body[i].nid)
        /\ \A i, j \in 1..Len(body) : i < j => body[i].nid < body[j].nid

C4_Witness ==
    /\ phase = "Exited"
    /\ output # Undefined
    /\ Len(body) = 2
    /\ Len(KeptTargets(file)) = 1
    /\ Len(ListOf(file)) = 2

\* C5: the keys of the file's records are pairwise distinct, one record per
\* detection in detection order, and every rewritten site passes the key of
\* exactly one record.
C5_UniqueIdentifiers ==
    /\ Len(AllRecords) = Len(sites)
    /\ \A i, j \in 1..Len(AllRecords) :
          i # j => AllRecords[i].key # AllRecords[j].key
    /\ \A i \in 1..Len(sites) :
          /\ SiteKey(sites[i]) = AllRecords[i].key
          /\ Cardinality({j \in 1..Len(AllRecords) :
                             AllRecords[j].key = SiteKey(sites[i])}) = 1

C5_Witness ==
    /\ Len(sites) = 2
    /\ AllRecords[1].value = AllRecords[2].value
    /\ AllRecords[1].value.properties # <<>>
    /\ AllRecords[1].key # AllRecords[2].key
\* A resolved relative specifier leads from the consuming file's directory to
\* the module the specifier names under the directory above parentDir.
RelativeToConsumer(call) ==
    /\ ~call.result.value.abs
    /\ Head(call.result.value.segs) = "."
    /\ \A i \in 2..Len(call.result.value.segs) :
          call.result.value.segs[i] # "."
    /\ PathResolve(PathDirname(call.filePath), call.result.value.segs)
         = PathResolve(parentDir, <<"..">> \o call.specifiedPath.segs)

ResolvedAsClaimed(call) ==
    IF StartsWithDot(call.specifiedPath)
    THEN IF resolvePath = "Conservatively"
         THEN call.result.error = RelativePathError /\ call.result.value = Undefined
         ELSE call.result.error = NoError /\ RelativeToConsumer(call)
    ELSE call.result = Ok(call.specifiedPath)

\* C6: every call of resolvePath on a specifier that starts with '.' throws
\* and returns no path under the conservative policy, and under the permissive
\* policy returns './' followed by the way from the consuming file's directory
\* to the module; every other specifier is returned unchanged under both; and
\* the policy and the directory it was chosen for never change.
C6_PathResolution ==
    /\ [](\A call \in resolved : ResolvedAsClaimed(call))
    /\ [](resolvePath = ChoosePolicy(parentDir))
    /\ [][resolvePath' = resolvePath /\ parentDir' = parentDir]_vars

C6_Witness ==
    /\ resolvePath = "AssumingWeAreInNodeModules"
    /\ \E call \in resolved :
          /\ StartsWithDot(call.specifiedPath)
          /\ call.result.value.segs = <<".", "..", "lib", "wrap">>
    /\ \E call \in resolved : ~StartsWithDot(call.specifiedPath)

\* C7: when Program.exit runs on a file with components and the configuration
\* is absent or not a list, it throws the plugin's own configuration error,
\* returns no program and leaves the pending records unflushed.
C7_ConfigurationError ==
    (phase = "Exited" /\ sites # <<>> /\ ~HasList(file)) =>
        /\ error = OptionsError
        /\ output = Undefined
        /\ flushed = Undefined
        /\ foundComponentRecords(state)

\* C8: the functionDepth counter (unset reads as 0) is the number of open
\* functions, never negative and 0 again at Program exit, and the record of a
\* detected component carries isInFunction exactly when a function encloses
\* its definition site; functions of its own body do not count.
C8_IsInFunction ==
    /\ DepthValue = EnclosingFunctions(open)
    /\ DepthValue >= 0
    /\ (phase = "Exited" => DepthValue = 0)
    /\ Len(AllRecords) = Len(sites)
    /\ \A i \in 1..Len(sites) :
          HasIsInFunction(AllRecords[i]) <=> sites[i].enclosing > 0

\* A class defined inside a function.
C8_Witness ==
    /\ Len(sites) = 1
    /\ sites[1].enclosing = 1
    /\ sites[1].rewrite.type = "Decorator"
    /\ HasIsInFunction(AllRecords[1])
    /\ Has(state, depthKey)

\* The declarations of the wrapper identifier in the returned program.
WrapperDeclarations ==
    IF output = Undefined THEN 0 ELSE Len(WrappersOf(output[1]))

\* C9 as stated: every traversal declares the wrapper identifier exactly once,
\* at Program exit.
C9_DeclaredExactlyOnce ==
    phase = "Exited" => WrapperDeclarations = 1

\* C9, amended: the wrapper identifier is allocated at Program enter, before
\* any rewrite; every rewritten site references that identifier; rewrites
\* happen only during the traversal; a Program exit that returns a program
\* declares the identifier exactly once and does so exactly when components
\* were detected and no error was thrown, otherwise the identifier is not
\* declared; and a file's traversal exits once: after the exit only the next
\* file follows.
C9_WrapperLifecycle ==
    /\ [](phase = "Idle" => (sites = <<>> /\ ~Has(state, wrapComponentIdKey)))
    /\ [](phase # "Idle" =>
            /\ Has(state, wrapComponentIdKey)
            /\ \A i \in 1..Len(sites) :
                  WrapCallOf(sites[i]).callee = state[wrapComponentIdKey])
    /\ [](phase # "Exited" => output = Undefined)
    /\ [](phase = "Exited" =>
            WrapperDeclarations = (IF sites # <<>> /\ error = NoError THEN 1 ELSE 0))
    /\ [][/\ (sites' # sites /\ sites' # <<>>) =>
                (phase = "Traversing" /\ phase' = "Traversing")
          /\ (Has(state, wrapComponentIdKey) /\ phase' # "Idle") =>
                (/\ Has(state', wrapComponentIdKey)
                 /\ state'[wrapComponentIdKey] = state[wrapComponentIdKey])
          /\ phase = "Exited" => phase' = "Idle"
          /\ phase' = "Exited" => phase = "Traversing"]_vars

C9_Witness ==
    /\ phase = "Exited"
    /\ Len(sites) = 2
    /\ sites[1].rewrite.type = "Decorator"
    /\ sites[2].rewrite.type = "CallExpression"
    /\ WrapperDeclarations = 1

\* C10: the record list only grows by one entry at its end, with a detection,
\* until Program exit flushes it: the flush puts the whole list, in order, in
\* the one records declaration and leaves the list empty, so that
\* foundComponentRecords is false afterwards.
C10_RecordAccumulator ==
    /\ [](flushed # Undefined =>
            (phase = "Exited" /\ ~foundComponentRecords(state)
             /\ Len(flushed[1].init.properties) = Len(sites)))
    /\ [][\/ /\ Records(state)' = Records(state)
             /\ sites' = sites
             /\ flushed' = flushed
          \/ /\ phase = "Traversing" /\ phase' = "Traversing"
             /\ Len(sites') = Len(sites) + 1
             /\ Len(Records(state)') = Len(Records(state)) + 1
             /\ SubSeq(Records(state)', 1, Len(Records(state))) = Records(state)
             /\ Last(Records(state)').key = SiteKey(Last(sites'))
             /\ flushed' = flushed
          \/ /\ phase = "Traversing" /\ phase' = "Exited"
             /\ foundComponentRecords(state)
             /\ flushed = Undefined /\ flushed' # Undefined
             /\ flushed'[1].init.properties = Records(state)
             /\ Records(state)' = <<>>
             /\ ~foundComponentRecords(state')
          \/ /\ phase = "Exited" /\ phase' = "Idle"
             /\ Records(state)' = <<>> /\ flushed' = Undefined]_vars

C10_Witness ==
    /\ phase = "Exited"
    /\ flushed # Undefined
    /\ Len(flushed[1].init.properties) = 2
    /\ Records(state) = <<>>
    /\ output # Undefined
====
